---- MODULE Spec2Model ----
(***************************************************************************)
(* Model of src/main.rs: the Markdown -> Typst template converter.         *)
(*                                                                         *)
(* Input text (standard input, the frontmatter slice, the body slice) is   *)
(* a sequence of one-character strings, so that the byte offsets of        *)
(* split_frontmatter are sequence positions.  Output text is a string,     *)
(* built by concatenation exactly as the write!/writeln! calls build it.   *)
(*                                                                         *)
(* Three libraries are outside the source and are modelled by what the     *)
(* source can observe of them:                                             *)
(*   - serde_yaml::from_str yields either an error or a Frontmatter        *)
(*     record (any title);                                                 *)
(*   - pulldown_cmark::Parser yields a finite stream of events, any event  *)
(*     at each step;                                                       *)
(*   - the standard streams never fail, and the BufWriter holds every      *)
(*     write until flush() (outputs of the model are far below its         *)
(*     capacity).                                                          *)
(***************************************************************************)
EXTENDS Integers, Sequences, FiniteSets, TLC

VARIABLES
    cli,          \* the parsed flags (struct Cli)
    manifest,     \* the embedded manifest.json, as far as main reads it
    stdin,        \* the text waiting on standard input
    input,        \* main's `input` String
    fm_str,       \* first component of split_frontmatter's result
    body,         \* second component of split_frontmatter's result
    meta,         \* main's `meta: Frontmatter`
    decoded,      \* what serde_yaml::from_str returned, "not_called" before
    w,            \* content held by the BufWriter
    out,          \* what has reached standard output
    flushes,      \* number of w.flush() calls made
    budget,       \* events the Markdown parser may still yield
    events,       \* events render_body has consumed, oldest first
    log,          \* the steps main has taken, oldest first
    pc            \* position in main

vars == <<cli, manifest, stdin, input, fm_str, body, meta, decoded, w, out,
          flushes, budget, events, log, pc>>

-----------------------------------------------------------------------------
(* Bounds of the model *)

\* longest standard input of SpecSplit, in fragments
MaxChunks == 7
\* longest event stream of SpecRender
MaxEvents == 3
\* longest event stream of a whole run (Spec)
MainMaxEvents == 1

-----------------------------------------------------------------------------
(* Text *)

LF == "\n"
CR == "\r"
DASH == "-"

\* "---"
Marker == <<DASH, DASH, DASH>>

Min(S) == CHOOSE x \in S : \A y \in S : x <= y

None == [some |-> FALSE]
Some(v) == [some |-> TRUE, val |-> v]

\* str::starts_with
starts_with(s, p) == Len(s) >= Len(p) /\ SubSeq(s, 1, Len(p)) = p

\* str::find: the byte offset (from 0) of the first occurrence
find(s, p) ==
    LET hits == {i \in 0..(Len(s) - Len(p)) : SubSeq(s, i + 1, i + Len(p)) = p}
    IN  IF hits = {} THEN None ELSE Some(Min(hits))

\* &s[n..]
SliceFrom(s, n) == SubSeq(s, n + 1, Len(s))

\* &s[..n]
SliceTo(s, n) == SubSeq(s, 1, n)

-----------------------------------------------------------------------------
(* split_frontmatter *)

split_frontmatter_nostrip(in) ==
    IF ~starts_with(in, Marker \o <<LF>>) /\ ~starts_with(in, Marker \o <<CR, LF>>)
    THEN <<<<>>, in>>
    ELSE LET rest == IF starts_with(in, Marker \o <<CR, LF>>)
                     THEN SliceFrom(in, 5)
                     ELSE SliceFrom(in, 4)
             found == find(rest, <<LF>> \o Marker)
         IN  IF found.some
             THEN <<SliceTo(rest, found.val), SliceFrom(rest, found.val + 4)>>
             ELSE <<<<>>, in>>

split_frontmatter_rest(in) ==
    IF ~starts_with(in, Marker \o <<LF>>) /\ ~starts_with(in, Marker \o <<CR, LF>>)
    THEN <<<<>>, in>>
    ELSE LET rest == IF starts_with(in, Marker \o <<CR, LF>>)
                     THEN SliceFrom(in, 5)
                     ELSE SliceFrom(in, 4)
             found == find(rest, <<LF>> \o Marker)
         IN  IF found.some
             THEN LET fm == SliceTo(rest, found.val)
                      after == SliceFrom(rest, found.val + 4)
                      bd == IF starts_with(after, <<LF>>)
                            THEN SliceFrom(after, 1)
                            ELSE IF starts_with(after, <<CR, LF>>)
                                 THEN SliceFrom(after, 2)
                                 ELSE after
                  IN  <<fm, bd>>
             ELSE <<<<>>, rest>>

split_frontmatter(in) ==
    IF ~starts_with(in, Marker \o <<LF>>) /\ ~starts_with(in, Marker \o <<CR, LF>>)
    THEN <<<<>>, in>>
    ELSE LET rest == IF starts_with(in, Marker \o <<CR, LF>>)
                     THEN SliceFrom(in, 5)
                     ELSE SliceFrom(in, 4)
             found == find(rest, <<LF>> \o Marker)
         IN  IF found.some
             THEN LET fm == SliceTo(rest, found.val)
                      after == SliceFrom(rest, found.val + 4)
                      bd == IF starts_with(after, <<LF>>)
                            THEN SliceFrom(after, 1)
                            ELSE IF starts_with(after, <<CR, LF>>)
                                 THEN SliceFrom(after, 2)
                                 ELSE after
                  IN  <<fm, bd>>
             ELSE <<<<>>, in>>

-----------------------------------------------------------------------------
(* Formatting *)

\* write!(w, s): the text appended to the writer
Write(s) == s

\* writeln!(w, s)
Writeln(s) == s \o "\n"

\* the double quote of the raw string literals
QUOTE == "\""

\* the grave accent (U+0060) of the code fence; the character cannot be
\* written in a TLA+ string, so "@", which no other literal of the program
\* holds, stands for it
BACKTICK == "@"

FENCE == BACKTICK \o BACKTICK \o BACKTICK

-----------------------------------------------------------------------------
(* write_page_setup *)

\* Frontmatter::default()
DefaultFrontmatter == [title |-> ""]

PageSetupFixed ==
       Writeln("#set page(paper: " \o QUOTE \o "a4" \o QUOTE \o ")")
    \o Writeln("#set text(font: " \o QUOTE \o "SimSun" \o QUOTE
               \o ", size: 12pt, lang: " \o QUOTE \o "zh" \o QUOTE \o ")")
    \o Writeln("#set par(leading: 1.5em, first-line-indent: 2em)")
    \o Writeln("")

PageSetupTitle(title) ==
       Writeln("#let title = " \o QUOTE \o title \o QUOTE)
    \o Writeln("")
    \o Writeln("#align(center, text(size: 22pt, weight: " \o QUOTE \o "bold"
               \o QUOTE \o ")[" \o title \o "])")
    \o Writeln("#v(1em)")
    \o Writeln("")

write_page_setup_always(m) == PageSetupFixed \o PageSetupTitle(m.title)

\* the text write_page_setup appends to the writer
write_page_setup(m) ==
    IF m.title # "" THEN PageSetupFixed \o PageSetupTitle(m.title)
                    ELSE PageSetupFixed

-----------------------------------------------------------------------------
(* render_body *)

HeadingLevels == {"H1", "H2", "H3", "H4", "H5", "H6"}

heading_level_to_u8(level) ==
    CASE level = "H1" -> 1
      [] level = "H2" -> 2
      [] level = "H3" -> 3
      [] level = "H4" -> 4
      [] level = "H5" -> 5
      [] level = "H6" -> 6

\* pulldown_cmark::Event, as far as render_body tells its variants apart
Start(tag, arg) == [ev |-> "Start", tag |-> tag, arg |-> arg]
End(tag) == [ev |-> "End", tag |-> tag, arg |-> ""]
Leaf(ev, arg) == [ev |-> ev, tag |-> "", arg |-> arg]

\* text carried by Text, Code and Html events
Texts == {"a", "x = 1"}

HandledTags == {"Paragraph", "List", "Item", "Emphasis", "Strong", "CodeBlock"}

\* tags and events that fall to the `_ => {}` arm
OtherTags == {"BlockQuote"}

Events ==
         {Start("Heading", l) : l \in HeadingLevels}
    \cup {End("Heading")}
    \cup {Start(t, "") : t \in HandledTags \cup OtherTags}
    \cup {End(t) : t \in HandledTags \cup OtherTags}
    \cup {Leaf("Text", s) : s \in Texts}
    \cup {Leaf("Code", s) : s \in Texts}
    \cup {Leaf("Html", "a")}
    \cup {Leaf("SoftBreak", ""), Leaf("Rule", ""), Leaf("HardBreak", "")}

EventOutput_softbreak(event) ==
    CASE event.ev = "Start" /\ event.tag = "Heading" ->
             Write("#heading(level: " \o ToString(heading_level_to_u8(event.arg)) \o ")[")
      [] event.ev = "End" /\ event.tag = "Heading" -> Writeln("]") \o Writeln("")
      [] event.ev = "Start" /\ event.tag = "Paragraph" -> ""
      [] event.ev = "End" /\ event.tag = "Paragraph" -> Writeln("") \o Writeln("")
      [] event.ev = "Text" -> Write(event.arg)
      [] event.ev = "SoftBreak" -> Write(" ")
      [] event.ev = "Start" /\ event.tag = "List" -> ""
      [] event.ev = "End" /\ event.tag = "List" -> Writeln("")
      [] event.ev = "Start" /\ event.tag = "Item" -> Write("- ")
      [] event.ev = "End" /\ event.tag = "Item" -> Writeln("")
      [] event.ev = "Start" /\ event.tag = "Emphasis" -> Write("#emph[")
      [] event.ev = "End" /\ event.tag = "Emphasis" -> Write("]")
      [] event.ev = "Start" /\ event.tag = "Strong" -> Write("#strong[")
      [] event.ev = "End" /\ event.tag = "Strong" -> Write("]")
      [] event.ev = "Rule" -> Writeln("#line(length: 100%)") \o Writeln("")
      [] event.ev = "Code" -> Write("#raw(" \o QUOTE \o event.arg \o QUOTE \o ")")
      [] event.ev = "Start" /\ event.tag = "CodeBlock" -> Write(FENCE \o "\n")
      [] event.ev = "End" /\ event.tag = "CodeBlock" -> Writeln(FENCE) \o Writeln("")
      [] OTHER -> ""

\* one iteration of render_body's loop: the text the match arm appends
EventOutput(event) ==
    CASE event.ev = "Start" /\ event.tag = "Heading" ->
             Write("#heading(level: " \o ToString(heading_level_to_u8(event.arg)) \o ")[")
      [] event.ev = "End" /\ event.tag = "Heading" -> Writeln("]") \o Writeln("")
      [] event.ev = "Start" /\ event.tag = "Paragraph" -> ""
      [] event.ev = "End" /\ event.tag = "Paragraph" -> Writeln("") \o Writeln("")
      [] event.ev = "Text" -> Write(event.arg)
      [] event.ev = "SoftBreak" -> Writeln("")
      [] event.ev = "Start" /\ event.tag = "List" -> ""
      [] event.ev = "End" /\ event.tag = "List" -> Writeln("")
      [] event.ev = "Start" /\ event.tag = "Item" -> Write("- ")
      [] event.ev = "End" /\ event.tag = "Item" -> Writeln("")
      [] event.ev = "Start" /\ event.tag = "Emphasis" -> Write("#emph[")
      [] event.ev = "End" /\ event.tag = "Emphasis" -> Write("]")
      [] event.ev = "Start" /\ event.tag = "Strong" -> Write("#strong[")
      [] event.ev = "End" /\ event.tag = "Strong" -> Write("]")
      [] event.ev = "Rule" -> Writeln("#line(length: 100%)") \o Writeln("")
      [] event.ev = "Code" -> Write("#raw(" \o QUOTE \o event.arg \o QUOTE \o ")")
      [] event.ev = "Start" /\ event.tag = "CodeBlock" -> Write(FENCE \o "\n")
      [] event.ev = "End" /\ event.tag = "CodeBlock" -> Writeln(FENCE) \o Writeln("")
      [] OTHER -> ""

-----------------------------------------------------------------------------
(* The embedded resources and the flags *)

\* what print!("{}", MANIFEST) and print!("{}", EXAMPLE) write
ManifestText == "<manifest.json>"
ExampleText == "<example.md>"

\* serde_json::Value of the "version" member
JsonString(s) == [type |-> "string", s |-> s]
JsonNumber == [type |-> "number", s |-> ""]

\* the embedded manifest.json: main reads only Value::get("version")
Manifests == {[version |-> v] : v \in {None, Some(JsonString("0.1.0")), Some(JsonNumber)}}

\* Value::as_str
as_str(v) == IF v.type = "string" THEN Some(v.s) ELSE None

\* Option::unwrap_or
unwrap_or(o, d) == IF o.some THEN o.val ELSE d

Clis == [manifest : BOOLEAN, example : BOOLEAN, version_flag : BOOLEAN]

NoFlags == [manifest |-> FALSE, example |-> FALSE, version_flag |-> FALSE]

-----------------------------------------------------------------------------
(* Inputs *)

Fragments == {Marker, <<LF>>, <<CR, LF>>, <<"a">>}

\* every text made of at most n fragments
RECURSIVE Inputs(_)
Inputs(n) ==
    IF n = 0 THEN {<<>>}
    ELSE LET shorter == Inputs(n - 1)
         IN  shorter \cup {d \o f : d \in shorter, f \in Fragments}

\* documents of a whole run: with and without the opening line, the block,
\* the closing marker and a body, in both line-ending styles
MainDocs ==
    {op \o fm \o cl \o bd :
        op \in {<<>>, Marker \o <<LF>>, Marker \o <<CR, LF>>},
        fm \in {<<>>, <<"a">>},
        cl \in {<<>>, <<LF>> \o Marker, <<LF>> \o Marker \o <<LF>>,
                <<LF>> \o Marker \o <<CR, LF>>},
        bd \in {<<>>, <<"a">>}}

\* what serde_yaml::from_str::<Frontmatter> can return
Titles == {"", "Hello"}
DecodeResults == {None} \cup {Some([title |-> t]) : t \in Titles}

-----------------------------------------------------------------------------
(* main *)

Init ==
    /\ cli \in Clis
    /\ manifest \in Manifests
    /\ stdin \in MainDocs
    /\ input = <<>>
    /\ fm_str = <<>>
    /\ body = <<>>
    /\ meta = None
    /\ decoded = "not_called"
    /\ w = ""
    /\ out = ""
    /\ flushes = 0
    /\ budget = MainMaxEvents
    /\ events = <<>>
    /\ log = <<>>
    /\ pc = "start"

\* lines 35-38
PrintManifest ==
    /\ pc = "start"
    /\ cli.manifest
    /\ out' = out \o ManifestText
    /\ log' = Append(log, "manifest")
    /\ pc' = "done"
    /\ UNCHANGED <<cli, manifest, stdin, input, fm_str, body, meta, decoded, w,
                   flushes, budget, events>>

\* lines 39-45
PrintVersion ==
    /\ pc = "start"
    /\ ~cli.manifest
    /\ cli.version_flag
    /\ LET v == manifest.version
       IN  out' = IF v.some
                  THEN out \o Writeln(unwrap_or(as_str(v.val), "unknown"))
                  ELSE out
    /\ log' = Append(log, "version")
    /\ pc' = "done"
    /\ UNCHANGED <<cli, manifest, stdin, input, fm_str, body, meta, decoded, w,
                   flushes, budget, events>>

\* lines 46-49
PrintExample ==
    /\ pc = "start"
    /\ ~cli.manifest
    /\ ~cli.version_flag
    /\ cli.example
    /\ out' = out \o ExampleText
    /\ log' = Append(log, "example")
    /\ pc' = "done"
    /\ UNCHANGED <<cli, manifest, stdin, input, fm_str, body, meta, decoded, w,
                   flushes, budget, events>>

\* lines 51-52: read_to_string takes all of standard input
ReadStdin ==
    /\ pc = "start"
    /\ cli = NoFlags
    /\ input' = input \o stdin
    /\ stdin' = <<>>
    /\ log' = Append(log, "read")
    /\ pc' = "split"
    /\ UNCHANGED <<cli, manifest, fm_str, body, meta, decoded, w, out, flushes,
                   budget, events>>

\* line 54
SplitFrontmatter ==
    /\ pc = "split"
    /\ fm_str' = split_frontmatter(input)[1]
    /\ body' = split_frontmatter(input)[2]
    /\ log' = Append(log, "split")
    /\ pc' = "decode"
    /\ UNCHANGED <<cli, manifest, stdin, input, meta, decoded, w, out, flushes,
                   budget, events>>

is_empty_never(s) == FALSE

\* str::is_empty, the test of line 56
is_empty(s) == Len(s) = 0

DecodeFrontmatter_or_default ==
    /\ pc = "decode"
    /\ IF is_empty(fm_str)
       THEN /\ meta' = Some(DefaultFrontmatter)
            /\ UNCHANGED decoded
       ELSE \E r \in DecodeResults :
              IF r.some
              THEN /\ decoded' = "ok"
                   /\ meta' = r
              ELSE /\ decoded' = "err"
                   /\ meta' = Some(DefaultFrontmatter)
    /\ pc' = "page_setup"
    /\ log' = Append(log, "decode")
    /\ UNCHANGED <<cli, manifest, stdin, input, fm_str, body, w, out, flushes,
                   budget, events>>

\* lines 56-60: expect() panics on the decoder's error
DecodeFrontmatter ==
    /\ pc = "decode"
    /\ IF is_empty(fm_str)
       THEN /\ meta' = Some(DefaultFrontmatter)
            /\ pc' = "page_setup"
            /\ UNCHANGED decoded
       ELSE \E r \in DecodeResults :
              IF r.some
              THEN /\ decoded' = "ok"
                   /\ meta' = r
                   /\ pc' = "page_setup"
              ELSE /\ decoded' = "err"
                   /\ pc' = "panic"
                   /\ UNCHANGED meta
    /\ log' = Append(log, "decode")
    /\ UNCHANGED <<cli, manifest, stdin, input, fm_str, body, w, out, flushes,
                   budget, events>>

WritePageSetup_early ==
    /\ \/ pc = "decode" /\ w = "" /\ w' = w \o write_page_setup(DefaultFrontmatter)
          /\ pc' = pc
       \/ pc = "page_setup" /\ w' = w \o write_page_setup(meta.val)
          /\ pc' = "render"
    /\ log' = Append(log, "page_setup")
    /\ UNCHANGED <<cli, manifest, stdin, input, fm_str, body, meta, decoded, out,
                   flushes, budget, events>>

\* lines 62-65
WritePageSetup ==
    /\ pc = "page_setup"
    /\ w' = w \o write_page_setup(meta.val)
    /\ log' = Append(log, "page_setup")
    /\ pc' = "render"
    /\ UNCHANGED <<cli, manifest, stdin, input, fm_str, body, meta, decoded, out,
                   flushes, budget, events>>

\* lines 124-193: the parser yields an event and the loop body handles it
RenderEvent ==
    /\ pc = "render"
    /\ budget > 0
    /\ \E event \in Events :
          /\ w' = w \o EventOutput(event)
          /\ events' = Append(events, event)
    /\ budget' = budget - 1
    /\ log' = Append(log, "event")
    /\ UNCHANGED <<cli, manifest, stdin, input, fm_str, body, meta, decoded, out,
                   flushes, pc>>

\* line 124: the parser is exhausted and render_body returns
RenderEnd ==
    /\ pc = "render"
    /\ pc' = "flush"
    /\ log' = Append(log, "render_end")
    /\ UNCHANGED <<cli, manifest, stdin, input, fm_str, body, meta, decoded, w,
                   out, flushes, budget, events>>

Flush_each ==
    /\ \/ pc = "flush" /\ pc' = "done"
       \/ pc = "render" /\ w # "" /\ pc' = pc
    /\ out' = out \o w
    /\ w' = ""
    /\ flushes' = flushes + 1
    /\ log' = Append(log, "flush")
    /\ UNCHANGED <<cli, manifest, stdin, input, fm_str, body, meta, decoded,
                   budget, events>>

\* line 68
Flush ==
    /\ pc = "flush"
    /\ out' = out \o w
    /\ w' = ""
    /\ flushes' = flushes + 1
    /\ log' = Append(log, "flush")
    /\ pc' = "done"
    /\ UNCHANGED <<cli, manifest, stdin, input, fm_str, body, meta, decoded,
                   budget, events>>

Next ==
    \/ PrintManifest
    \/ PrintVersion
    \/ PrintExample
    \/ ReadStdin
    \/ SplitFrontmatter
    \/ DecodeFrontmatter
    \/ WritePageSetup
    \/ RenderEvent
    \/ RenderEnd
    \/ Flush

Spec == Init /\ [][Next]_vars

-----------------------------------------------------------------------------
(* split_frontmatter alone, over every text of at most MaxChunks fragments *)

InitSplit ==
    /\ cli = NoFlags
    /\ manifest \in {[version |-> None]}
    /\ stdin = <<>>
    /\ input \in Inputs(MaxChunks)
    /\ fm_str = <<>>
    /\ body = <<>>
    /\ meta = None
    /\ decoded = "not_called"
    /\ w = ""
    /\ out = ""
    /\ flushes = 0
    /\ budget = 0
    /\ events = <<>>
    /\ log = <<"read">>
    /\ pc = "split"

NextSplit == SplitFrontmatter

SpecSplit == InitSplit /\ [][NextSplit]_vars

-----------------------------------------------------------------------------
(* render_body alone, over every event stream of at most MaxEvents events *)

InitRender ==
    /\ cli = NoFlags
    /\ manifest \in {[version |-> None]}
    /\ stdin = <<>>
    /\ input = <<>>
    /\ fm_str = <<>>
    /\ body = <<>>
    /\ meta = Some(DefaultFrontmatter)
    /\ decoded = "not_called"
    /\ w = ""
    /\ out = ""
    /\ flushes = 0
    /\ budget = MaxEvents
    /\ events = <<>>
    /\ log = <<>>
    /\ pc = "render"

NextRender == RenderEvent \/ RenderEnd

SpecRender == InitRender /\ [][NextRender]_vars

-----------------------------------------------------------------------------
(* Properties of split_frontmatter (checked under SpecSplit) *)

\* text p lies in s at byte offset o
HasAt(s, p, o) == o + Len(p) <= Len(s) /\ \A k \in 1..Len(p) : s[o + k] = p[k]

\* length of the opening "---" line with its line ending, 0 when the text
\* does not begin with one
OpenerLen(s) ==
    IF HasAt(s, <<"-", "-", "-", "\n">>, 0) THEN 4
    ELSE IF HasAt(s, <<"-", "-", "-", "\r", "\n">>, 0) THEN 5
    ELSE 0

\* offsets in s, past the opening line, where "\n---" lies
CloserOffsets(s) ==
    {o \in OpenerLen(s)..Len(s) : HasAt(s, <<"\n", "-", "-", "-">>, o)}

\* t without one leading line ending
StripOneEol(t) ==
    IF HasAt(t, <<"\n">>, 0) THEN SubSeq(t, 2, Len(t))
    ELSE IF HasAt(t, <<"\r", "\n">>, 0) THEN SubSeq(t, 3, Len(t))
    ELSE t

FoundCase(s) == OpenerLen(s) > 0 /\ CloserOffsets(s) # {}

\* C1: when the input begins with "---" and a line ending and the text after
\* that line holds "\n---", the frontmatter is the text between the opening
\* line and the first "\n---", and the body is the text after those four
\* characters less one leading line ending.
C1_FoundCase ==
    (pc = "decode" /\ FoundCase(input)) =>
        LET o == Min(CloserOffsets(input))
        IN  /\ fm_str = SubSeq(input, OpenerLen(input) + 1, o)
            /\ body = StripOneEol(SubSeq(input, o + 5, Len(input)))

\* the split has run on "---\na\n---\na"-like input: a block, a stripped line
\* ending and a body
C1_Witness ==
    /\ pc = "decode"
    /\ FoundCase(input)
    /\ fm_str = <<"a">>
    /\ body = <<"a">>
    /\ Len(input) = 11

\* C2: an input without the opening line, or with it and no "\n---" after
\* it, comes back whole as the body, with empty frontmatter.
C2_FallbackCase ==
    (pc = "decode" /\ ~FoundCase(input)) => (fm_str = <<>> /\ body = input)

\* the split has run on an input that has the opening line, more text, and
\* no closing marker
C2_Witness ==
    /\ pc = "decode"
    /\ OpenerLen(input) > 0
    /\ CloserOffsets(input) = {}
    /\ Len(input) > OpenerLen(input)
    /\ body = input

\* a line "---" begins at offset o of s: it starts the text or follows a line
\* feed, and ends with the text or with a line ending
MarkerLineAt(s, o) ==
    /\ o = 0 \/ s[o] = "\n"
    /\ HasAt(s, <<"-", "-", "-">>, o)
    /\ \/ o + 3 = Len(s)
       \/ HasAt(s, <<"\n">>, o + 3)
       \/ HasAt(s, <<"\r", "\n">>, o + 3)

\* length of the marker line at offset o, line ending included
MarkerLineLen(s, o) ==
    IF HasAt(s, <<"\n">>, o + 3) THEN 4
    ELSE IF HasAt(s, <<"\r", "\n">>, o + 3) THEN 5
    ELSE 3

\* offsets of the marker lines after the first line
LaterMarkerLines(s) == {o \in 1..Len(s) : MarkerLineAt(s, o)}

\* t without its last line ending, if it ends with one
ChopEol(t) ==
    IF Len(t) >= 2 /\ t[Len(t) - 1] = "\r" /\ t[Len(t)] = "\n"
    THEN SubSeq(t, 1, Len(t) - 2)
    ELSE IF Len(t) >= 1 /\ t[Len(t)] = "\n" THEN SubSeq(t, 1, Len(t) - 1)
    ELSE t

\* C9: when the first line is "---" and a later line is "---" (the very next
\* line included), the frontmatter is the text between the two lines and the
\* body is the text after the second one.
C9_MarkerLines ==
    (pc = "decode" /\ MarkerLineAt(input, 0) /\ LaterMarkerLines(input) # {}) =>
        LET o == Min(LaterMarkerLines(input))
            between == SubSeq(input, MarkerLineLen(input, 0) + 1, o)
        IN  /\ fm_str \in {between, ChopEol(between)}
            /\ body = SubSeq(input, o + MarkerLineLen(input, o) + 1, Len(input))

-----------------------------------------------------------------------------
(* Properties of render_body (checked under SpecRender) *)

\* the emission table of the transcoder, event by event
Emission(e) ==
    CASE e = Start("Heading", "H1") -> "#heading(level: 1)["
      [] e = Start("Heading", "H2") -> "#heading(level: 2)["
      [] e = Start("Heading", "H3") -> "#heading(level: 3)["
      [] e = Start("Heading", "H4") -> "#heading(level: 4)["
      [] e = Start("Heading", "H5") -> "#heading(level: 5)["
      [] e = Start("Heading", "H6") -> "#heading(level: 6)["
      [] e = End("Heading") -> "]\n\n"
      [] e = Start("Paragraph", "") -> ""
      [] e = End("Paragraph") -> "\n\n"
      [] e.ev = "Text" -> e.arg
      [] e = Leaf("SoftBreak", "") -> "\n"
      [] e = Start("List", "") -> ""
      [] e = End("List") -> "\n"
      [] e = Start("Item", "") -> "- "
      [] e = End("Item") -> "\n"
      [] e = Start("Emphasis", "") -> "#emph["
      [] e = End("Emphasis") -> "]"
      [] e = Start("Strong", "") -> "#strong["
      [] e = End("Strong") -> "]"
      [] e = Leaf("Rule", "") -> "#line(length: 100%)\n\n"
      [] e.ev = "Code" -> "#raw(\"" \o e.arg \o "\")"
      [] e = Start("CodeBlock", "") -> BACKTICK \o BACKTICK \o BACKTICK \o "\n"
      [] e = End("CodeBlock") -> BACKTICK \o BACKTICK \o BACKTICK \o "\n\n"
      [] OTHER -> ""

\* the emissions of a sequence of events, joined in order
RECURSIVE Emissions(_)
Emissions(es) ==
    IF es = <<>> THEN "" ELSE Emission(Head(es)) \o Emissions(Tail(es))

\* events the table has no row for
Unrecognized(e) ==
    \/ e.ev \in {"Html", "HardBreak"}
    \/ e.ev \in {"Start", "End"} /\ e.tag = "BlockQuote"

\* C3: whatever events came before, the writer holds the emissions of the
\* events consumed so far, joined in order; unrecognized events alone leave
\* it empty, and a lone horizontal rule leaves the line directive and one
\* blank line.
C3_StatelessFold ==
    /\ w = Emissions(events)
    /\ (\A i \in 1..Len(events) : Unrecognized(events[i])) => w = ""
    /\ events = <<Leaf("Rule", "")>> => w = "#line(length: 100%)\n\n"

\* render_body has returned after a heading start, a text run and a heading
\* end
C3_Witness ==
    /\ pc = "flush"
    /\ events = <<Start("Heading", "H2"), Leaf("Text", "a"), End("Heading")>>
    /\ w = "#heading(level: 2)[a]\n\n"

-----------------------------------------------------------------------------
(* Properties of a whole run (checked under Spec) *)

\* the step main took last
LastStep == IF log = <<>> THEN "" ELSE log[Len(log)]

\* main has taken step s
Took(s) == \E i \in 1..Len(log) : log[i] = s

\* the three fixed directives and the blank line
FixedDirectives ==
    "#set page(paper: \"a4\")\n"
    \o "#set text(font: \"SimSun\", size: 12pt, lang: \"zh\")\n"
    \o "#set par(leading: 1.5em, first-line-indent: 2em)\n"
    \o "\n"

\* the title block for title t
TitleBlock(t) ==
    "#let title = \"" \o t \o "\"\n"
    \o "\n"
    \o "#align(center, text(size: 22pt, weight: \"bold\")[" \o t \o "])\n"
    \o "#v(1em)\n"
    \o "\n"

\* what the Page-Setup Emitter writes for title t
PageSetup(t) == IF t = "" THEN FixedDirectives ELSE FixedDirectives \o TitleBlock(t)

\* C4: write_page_setup writes the three fixed directives and a blank line,
\* and after them the title binding, a blank line, the centered bold 22pt
\* block, the spacing directive and a blank line exactly when the title is
\* not empty.
C4_PageSetup ==
    LastStep = "page_setup" =>
        /\ meta.val.title # "" => w = FixedDirectives \o TitleBlock(meta.val.title)
        /\ meta.val.title = "" => w = FixedDirectives

\* write_page_setup has just run with the title "Hello"
C4_Witness ==
    /\ LastStep = "page_setup"
    /\ meta = Some([title |-> "Hello"])
    /\ w = FixedDirectives \o TitleBlock("Hello")

\* C5: once main is past the decoding step, the decoder has been called if
\* and only if the frontmatter text is not empty, and with empty frontmatter
\* the metadata is the default record; before that step it has not been
\* called.
C5_DecoderCalledIffNonEmpty ==
    /\ ~Took("decode") => decoded = "not_called"
    /\ Took("decode") =>
          /\ decoded # "not_called" <=> fm_str # <<>>
          /\ fm_str = <<>> => meta = Some([title |-> ""])

\* the decoding step has been taken on a found but empty frontmatter block,
\* without the decoder
C5_Witness ==
    /\ Took("decode")
    /\ FoundCase(input)
    /\ fm_str = <<>>
    /\ decoded = "not_called"
    /\ meta = Some([title |-> ""])

\* the input has the opening line and no closing marker
MissingCloser(s) == OpenerLen(s) > 0 /\ CloserOffsets(s) = {}

\* C6: a decoder error ends the run in the fatal state with no metadata
\* bound; a missing closing delimiter never does: the run goes on with empty
\* frontmatter, the whole input as body, the decoder not called and default
\* metadata, and it is never stuck before its normal end.
C6_FatalVersusFallback ==
    /\ decoded = "err" => (pc = "panic" /\ meta = None)
    /\ pc = "panic" => (decoded = "err" /\ fm_str # <<>>)
    /\ (Took("split") /\ MissingCloser(input)) =>
          /\ fm_str = <<>>
          /\ body = input
          /\ decoded = "not_called"
          /\ pc # "panic"
          /\ Took("decode") => meta = Some([title |-> ""])
          /\ pc # "done" => ENABLED Next

\* a run on an input with the opening line and no closing marker has ended
\* normally, with output
C6_Witness ==
    /\ pc = "done"
    /\ Took("flush")
    /\ MissingCloser(input)
    /\ out # ""

\* the run took the --version branch
VersionMode == cli.version_flag /\ ~cli.manifest

\* C7: in --version mode the run writes one line, the version string of the
\* manifest or "unknown" when the manifest has no version member, and
\* neither reads standard input nor writes markup.
C7_VersionLine ==
    (VersionMode /\ pc = "done") =>
        /\ manifest.version = None => out = "unknown\n"
        /\ manifest.version = Some(JsonString("0.1.0")) => out = "0.1.0\n"
        /\ out \in {"0.1.0\n", "unknown\n"}
        /\ ~Took("read")
        /\ input = <<>>
        /\ w = ""

\* rank of a step in the pipeline
Rank(step) ==
    CASE step = "read" -> 1
      [] step = "split" -> 2
      [] step = "decode" -> 3
      [] step = "page_setup" -> 4
      [] step = "event" -> 5
      [] step = "render_end" -> 6
      [] step = "flush" -> 7
      [] OTHER -> 0

C10_NoOutputBeforeAbort ==
    /\ pc = "panic" => (w = "" /\ out = "" /\ flushes = 0)
    /\ (cli = NoFlags /\ (w # "" \/ out # "")) =>
          (meta # None /\ decoded # "err" /\ Took("decode"))

\* the decoder has failed on a non-empty block and the run has aborted
C10_Witness ==
    /\ pc = "panic"
    /\ decoded = "err"
    /\ fm_str = <<"a">>
    /\ LastStep = "decode"

====
